---- MODULE Spec2Model ----
(***************************************************************************)
(* cbx (catbox command-line client): the session cache (UserInstance over  *)
(* a tokio OnceCell) and the two bounded-concurrency orchestrators         *)
(* upload_files and add_to_album of src/main.rs, driven by main.           *)
(*                                                                         *)
(* Strings are sequences of tokens, so that substring tests, URL parsing   *)
(* and path-segment extraction are computed, not assumed.                  *)
(***************************************************************************)
EXTENDS Integers, Sequences, FiniteSets, TLC

VARIABLES
    cache,      \* UserInstance.cache: 0 = empty, k = the User made by attempt k
    permits,    \* permits of the OnceCell's semaphore (1, or 0 while one is held)
    closed,     \* the semaphore is closed (done when the value is set)
    authCalls,  \* number of executions of User::new started so far
    cpc,        \* per caller of UserInstance::get: its position
    ret,        \* per caller: what its last get returned
    calls,      \* number of calls of get made by the concurrent callers
    joined,     \* per caller: the attempt that was running when it called get
    own,        \* per caller: the attempt it ran itself in this call (0 = none)
    cmd,        \* the command line main dispatches on
    mpc,        \* position of main
    exitv,      \* what main returned
    ust,        \* upload_files: state of the task of each input path
    ucalls,     \* upload_files: upload_file calls whose body has started (n-th of its task)
    printed,    \* lines written by MULTI_PROGRESS.println, in order
    urls,       \* upload_files: the Vec being collected by try_collect
    uret,       \* what upload_files returned
    afiles,     \* add_to_album: the files argument
    aalbum,     \* add_to_album: the normalized Album (its URL)
    ast,        \* add_to_album: state of the task of each file reference
    spin,       \* add_to_album: state of the spinner of each file reference
    acalls,     \* add_to_album: upload_to_album calls whose body has started (n-th of its task)
    aret        \* what add_to_album returned

cacheVars == <<cache, permits, closed, authCalls, cpc, ret, calls, joined, own>>
uploadVars == <<ust, ucalls, printed, urls, uret>>
albumVars == <<afiles, aalbum, ast, spin, acalls, aret>>
mainVars == <<cmd, mpc, exitv>>
vars == <<cacheVars, mainVars, uploadVars, albumVars>>

(***************************************************************************)
(* Bounds of the model.                                                    *)
(***************************************************************************)
NCallers == 3       \* concurrent callers of UserInstance::get
MaxCalls == 4       \* calls of get made by the concurrent callers, in all
MaxPaths == 6       \* paths of a `file upload` command
MaxFiles == 6       \* file references of an `album add` command
MaxVaried == 2      \* leading file references drawn from every shape
MaxAlbumPaths == 2  \* paths of an `album upload` command

(***************************************************************************)
(* Program constants.                                                      *)
(***************************************************************************)
UploadLimit == 5    \* buffer_unordered(5) of upload_files
AlbumLimit == 5     \* buffer_unordered(5) of add_to_album

Callers == 1..NCallers
Main == 1           \* the caller that is main's own task

(***************************************************************************)
(* Strings: sequences of tokens.                                           *)
(***************************************************************************)
Tok(n, i) == n \o ToString(i)

\* str::contains
Contains(s, pat) ==
    \E i \in 1..(Len(s) - Len(pat) + 1) : SubSeq(s, i, i + Len(pat) - 1) = pat

\* index of the first "/" of s at or after position from, 0 if there is none
RECURSIVE FirstSlash(_, _)
FirstSlash(s, from) ==
    IF from > Len(s) THEN 0
    ELSE IF s[from] = "/" THEN from
    ELSE FirstSlash(s, from + 1)

NoUrl == [ok |-> FALSE, base |-> FALSE, host |-> <<>>, path |-> <<>>]

\* Url::parse: an https URL needs a host; a mailto URL parses but cannot be a
\* base; anything else has no scheme and is a relative URL without a base.
\* The path of an https URL is never empty ("/" when the input has none).
UrlParse(s) ==
    IF Len(s) >= 1 /\ s[1] = "mailto:"
        THEN [ok |-> TRUE, base |-> FALSE, host |-> <<>>, path |-> Tail(s)]
    ELSE IF Len(s) >= 2 /\ s[1] = "https://" /\ s[2] # "/"
        THEN LET k == FirstSlash(s, 2) IN
             IF k = 0
                THEN [ok |-> TRUE, base |-> TRUE, host |-> Tail(s), path |-> <<"/">>]
                ELSE [ok |-> TRUE, base |-> TRUE, host |-> SubSeq(s, 2, k - 1),
                      path |-> SubSeq(s, k, Len(s))]
    ELSE NoUrl

\* Url::path_segments().next(): <<seg>> is Some(seg), <<>> is None. A URL
\* that cannot be a base has no segments; otherwise the first segment is what
\* lies between the leading "/" of the path and the next "/".
FirstPathSegment(u) ==
    IF ~u.base THEN <<>>
    ELSE LET k == FirstSlash(u.path, 2) IN
         IF k = 0 THEN << SubSeq(u.path, 2, Len(u.path)) >>
                  ELSE << SubSeq(u.path, 2, k - 1) >>

\* mutant: the album is always interpolated into the album-URL template
NormalizeAlbum_AlwaysTemplate(album) ==
    LET s == <<"https://", "catbox.moe", "/", "c", "/">> \o album IN
    IF UrlParse(s).ok THEN <<s>> ELSE <<>>

\* the album block of add_to_album: <<url>> is Ok(Album), <<>> is the Err of `?`
NormalizeAlbum(album) ==
    IF Contains(album, <<"catbox.moe">>)
        THEN IF UrlParse(album).ok THEN <<album>> ELSE <<>>
        ELSE LET s == <<"https://", "catbox.moe", "/", "c", "/">> \o album IN
             IF UrlParse(s).ok THEN <<s>> ELSE <<>>

\* mutant: a full file URL is passed on as it is
NormalizeFile_NoStrip(x) == <<x>>

\* mutant: a reference that does not yield a segment is kept as it was given
NormalizeFile_KeepRaw(x) ==
    IF Contains(x, <<"files.", "catbox.moe">>)
        THEN LET u == UrlParse(x) IN
             IF u.ok /\ FirstPathSegment(u) # <<>> THEN FirstPathSegment(u) ELSE <<x>>
        ELSE <<x>>

\* the filter_map closure of add_to_album: <<code>> is Some(code), <<>> is None
NormalizeFile(x) ==
    IF Contains(x, <<"files.", "catbox.moe">>)
        THEN LET u == UrlParse(x) IN
             IF u.ok THEN FirstPathSegment(u) ELSE <<>>
        ELSE <<x>>

(***************************************************************************)
(* The remote service and the local inputs.                                *)
(***************************************************************************)
PathName(i) == << Tok("p", i), ".png" >>
\* the URL the service answers for the upload of the i-th path
RemoteUrl(i) == <<"https://", "files.", "catbox.moe", "/", Tok("u", i), ".png">>
\* format!("{}: {url}", path.display())
Line(path, url) == path \o <<": ">> \o url

Ok(v) == <<"Ok", v>>
Err(e) == <<"Err", e>>
None == <<"None", 0>>
AuthError(k) == <<"Auth", k>>
TransportError(i) == <<"Transport", i>>
IoError(i) == <<"Io", i>>
UrlError == <<"Url", 0>>

(***************************************************************************)
(* UserInstance::get = OnceCell::get_or_try_init(User::new).               *)
(***************************************************************************)
Running == IF \E c \in Callers : cpc[c] = "init" THEN authCalls ELSE 0

\* get is called: the fast path returns the value when the cell is set,
\* otherwise the caller queues on the semaphore.
GetOrTryInitEnter(c) ==
    /\ joined' = [joined EXCEPT ![c] = Running]
    /\ own' = [own EXCEPT ![c] = 0]
    /\ IF cache # 0
          THEN /\ cpc' = [cpc EXCEPT ![c] = "ok"]
               /\ ret' = [ret EXCEPT ![c] = Ok(cache)]
          ELSE /\ cpc' = [cpc EXCEPT ![c] = "acquire"]
               /\ ret' = [ret EXCEPT ![c] = None]
    /\ UNCHANGED <<cache, permits, closed, authCalls>>

\* mutant: the initialization is not guarded by the permit
SemAcquire_NoPermit(c) ==
    /\ cpc[c] = "acquire"
    /\ ~closed
    /\ permits' = 0
    /\ authCalls' = authCalls + 1
    /\ own' = [own EXCEPT ![c] = authCalls + 1]
    /\ cpc' = [cpc EXCEPT ![c] = "init"]
    /\ UNCHANGED <<cache, closed, ret, calls, joined>>

\* semaphore.acquire() succeeds: the caller holds the permit and starts User::new
SemAcquire(c) ==
    /\ cpc[c] = "acquire"
    /\ ~closed
    /\ permits > 0
    /\ permits' = permits - 1
    /\ authCalls' = authCalls + 1
    /\ own' = [own EXCEPT ![c] = authCalls + 1]
    /\ cpc' = [cpc EXCEPT ![c] = "init"]
    /\ UNCHANGED <<cache, closed, ret, calls, joined>>

\* semaphore.acquire() fails because the semaphore was closed: the value is set
SemClosed(c) ==
    /\ cpc[c] = "acquire"
    /\ closed
    /\ cpc' = [cpc EXCEPT ![c] = "ok"]
    /\ ret' = [ret EXCEPT ![c] = Ok(cache)]
    /\ UNCHANGED <<cache, permits, closed, authCalls, calls, joined, own>>

\* mutant: the value is stored but the permit is handed back like a mutex,
\* without closing the semaphore
UserNewOk_ReleasesPermit(c) ==
    /\ cpc[c] = "init"
    /\ cache' = own[c]
    /\ permits' = permits + 1
    /\ cpc' = [cpc EXCEPT ![c] = "ok"]
    /\ ret' = [ret EXCEPT ![c] = Ok(own[c])]
    /\ UNCHANGED <<closed, authCalls, calls, joined, own>>

\* User::new returned Ok: set_value stores it, closes the semaphore and
\* forgets the permit
UserNewOk(c) ==
    /\ cpc[c] = "init"
    /\ cache' = own[c]
    /\ closed' = TRUE
    /\ cpc' = [cpc EXCEPT ![c] = "ok"]
    /\ ret' = [ret EXCEPT ![c] = Ok(own[c])]
    /\ UNCHANGED <<permits, authCalls, calls, joined, own>>

\* mutant: the failure is handed to every caller queued on the semaphore
UserNewErr_Broadcast(c) ==
    /\ cpc[c] = "init"
    /\ permits' = permits + 1
    /\ cpc' = [d \in Callers |-> IF d = c \/ cpc[d] = "acquire" THEN "err" ELSE cpc[d]]
    /\ ret' = [d \in Callers |->
                  IF d = c \/ cpc[d] = "acquire" THEN Err(AuthError(own[c])) ELSE ret[d]]
    /\ UNCHANGED <<cache, closed, authCalls, calls, joined, own>>

\* mutant: the failed result is stored in the cell as its one-time value
UserNewErr_Cached(c) ==
    /\ cpc[c] = "init"
    /\ cache' = 0 - own[c]
    /\ closed' = TRUE
    /\ cpc' = [cpc EXCEPT ![c] = "err"]
    /\ ret' = [ret EXCEPT ![c] = Err(AuthError(own[c]))]
    /\ UNCHANGED <<permits, authCalls, calls, joined, own>>

\* User::new returned Err: the error goes to this caller alone and the permit
\* is dropped, which lets the next queued caller in
UserNewErr(c) ==
    /\ cpc[c] = "init"
    /\ permits' = permits + 1
    /\ cpc' = [cpc EXCEPT ![c] = "err"]
    /\ ret' = [ret EXCEPT ![c] = Err(AuthError(own[c]))]
    /\ UNCHANGED <<cache, closed, authCalls, calls, joined, own>>

(***************************************************************************)
(* Concurrent callers of UserInstance::get.                                *)
(***************************************************************************)
CallerGet(c) ==
    /\ cpc[c] \in {"idle", "ok", "err"}
    /\ calls < MaxCalls
    /\ calls' = calls + 1
    /\ GetOrTryInitEnter(c)

NoCmd == [kind |-> "None", paths |-> <<>>, album |-> <<>>, files |-> <<>>]

InitCacheVars ==
    /\ cache = 0
    /\ permits = 1
    /\ closed = FALSE
    /\ authCalls = 0
    /\ cpc = [c \in Callers |-> "idle"]
    /\ ret = [c \in Callers |-> None]
    /\ calls = 0
    /\ joined = [c \in Callers |-> 0]
    /\ own = [c \in Callers |-> 0]

InitBatchVars ==
    /\ exitv = None
    /\ ust = <<>>
    /\ ucalls = {}
    /\ printed = <<>>
    /\ urls = <<>>
    /\ uret = None
    /\ afiles = <<>>
    /\ aalbum = <<>>
    /\ ast = <<>>
    /\ spin = <<>>
    /\ acalls = {}
    /\ aret = None

InitCache ==
    /\ InitCacheVars
    /\ InitBatchVars
    /\ cmd = NoCmd
    /\ mpc = "exit"

CallerCalls == \E c \in Callers : CallerGet(c) /\ UNCHANGED <<mainVars, uploadVars, albumVars>>
CallerAcquires == \E c \in Callers : SemAcquire(c) /\ UNCHANGED <<mainVars, uploadVars, albumVars>>
CallerWoken == \E c \in Callers : SemClosed(c) /\ UNCHANGED <<mainVars, uploadVars, albumVars>>
CallerInitOk == \E c \in Callers : UserNewOk(c) /\ UNCHANGED <<mainVars, uploadVars, albumVars>>
CallerInitErr == \E c \in Callers : UserNewErr(c) /\ UNCHANGED <<mainVars, uploadVars, albumVars>>

NextCache ==
    \/ CallerCalls
    \/ CallerAcquires
    \/ CallerWoken
    \/ CallerInitOk
    \/ CallerInitErr

SpecCache == InitCache /\ [][NextCache]_vars

(***************************************************************************)
(* Command lines of main.                                                  *)
(***************************************************************************)
AlbumInputs ==
    { <<"myalbum">>,
      <<"https://", "catbox.moe", "/", "c", "/", "myalbum">>,
      <<"catbox.moe", "/", "c", "/", "myalbum">> }

FileShapes ==
    { <<"abc456">>,
      <<"https://", "files.", "catbox.moe", "/", "xyz123", ".png">>,
      <<"files.", "catbox.moe", "/", "xyz123", ".png">>,
      <<"mailto:", "files.", "catbox.moe">>,
      <<"https://", "files.", "catbox.moe">> }

BareCodes(m) == [i \in 1..m |-> << Tok("f", i) >>]

SeqsUpTo(S, n) == UNION { [1..k -> S] : k \in 0..n }

FileInputs ==
    { head \o BareCodes(m) :
        head \in SeqsUpTo(FileShapes, MaxVaried), m \in 0..(MaxFiles - MaxVaried) }

PathInputs(n) == { [i \in 1..k |-> PathName(i)] : k \in 0..n }

Commands ==
    { [kind |-> "FileUpload", paths |-> p, album |-> <<>>, files |-> <<>>] :
        p \in PathInputs(MaxPaths) }
    \cup
    { [kind |-> "AlbumAdd", paths |-> <<>>, album |-> a, files |-> f] :
        a \in AlbumInputs, f \in FileInputs }
    \cup
    { [kind |-> "AlbumUpload", paths |-> p, album |-> a, files |-> <<>>] :
        p \in PathInputs(MaxAlbumPaths), a \in AlbumInputs }

Init ==
    /\ InitCacheVars
    /\ InitBatchVars
    /\ cmd \in Commands
    /\ mpc = "main"

(***************************************************************************)
(* The buffer_unordered driver, shared by both orchestrators.              *)
(***************************************************************************)
Min(S) == CHOOSE x \in S : \A y \in S : x <= y
InState(st, s) == { i \in DOMAIN st : st[i] = s }
\* the futures held by the BufferUnordered's in_progress_queue
Buffered(st) == InState(st, "Queued") \cup InState(st, "InFlight")
\* mutant: the driver pulls without looking at the size of the buffer
CanPull_NoCeiling(st, limit) == InState(st, "Pending") # {}
\* the driver first fills the buffer from the iterator, then polls
CanPull(st, limit) == Cardinality(Buffered(st)) < limit /\ InState(st, "Pending") # {}
\* mutant: the futures of the buffer outlive the stream
DropStream_Keep(st) == st
\* the stream is dropped when the collecting future returns: every future
\* still in the buffer is dropped with it
DropStream(st) ==
    [i \in DOMAIN st |-> IF st[i] \in {"Queued", "InFlight"} THEN "Cancelled" ELSE st[i]]

\* number of calls recorded for the task of item i (each record is one call)
CallsFor(callset, i) == Cardinality({ r \in callset : r.task = i })

Exit(v) == mpc' = "exit" /\ exitv' = v

(***************************************************************************)
(* main, get on main's task.                                               *)
(***************************************************************************)
MainAcquire ==
    /\ mpc \in {"upload_get", "album_get"}
    /\ SemAcquire(Main)
    /\ UNCHANGED <<mainVars, uploadVars, albumVars>>

MainInitOk ==
    /\ mpc \in {"upload_get", "album_get"}
    /\ UserNewOk(Main)
    /\ UNCHANGED <<mainVars, uploadVars, albumVars>>

MainInitErr ==
    /\ mpc \in {"upload_get", "album_get"}
    /\ UserNewErr(Main)
    /\ UNCHANGED <<mainVars, uploadVars, albumVars>>

(***************************************************************************)
(* upload_files                                                            *)
(***************************************************************************)
\* main calls upload_files(paths): USER_INSTANCE.get() is awaited first
CallUploadFiles ==
    /\ mpc = "main"
    /\ cmd.kind \in {"FileUpload", "AlbumUpload"}
    /\ GetOrTryInitEnter(Main)
    /\ ust' = [i \in 1..Len(cmd.paths) |-> "Pending"]
    /\ mpc' = "upload_get"
    /\ UNCHANGED <<calls, cmd, exitv, ucalls, printed, urls, uret, albumVars>>

\* mutant: the result of get is not looked at
UploadAfterGet_NoCheck ==
    /\ mpc = "upload_get"
    /\ cpc[Main] \in {"ok", "err"}
    /\ mpc' = "upload_stream"
    /\ UNCHANGED <<uret, exitv>>
    /\ UNCHANGED <<cacheVars, cmd, ust, ucalls, printed, urls, albumVars>>

\* `let user = USER_INSTANCE.get().await?;`
UploadAfterGet ==
    /\ mpc = "upload_get"
    /\ \/ /\ cpc[Main] = "err"
          /\ uret' = ret[Main]
          /\ Exit(ret[Main])
       \/ /\ cpc[Main] = "ok"
          /\ mpc' = "upload_stream"
          /\ UNCHANGED <<uret, exitv>>
    /\ UNCHANGED <<cacheVars, cmd, ust, ucalls, printed, urls, albumVars>>

\* the driver pulls the next path: the map closure makes its upload future
UploadPull ==
    /\ mpc = "upload_stream"
    /\ CanPull(ust, UploadLimit)
    /\ ust' = [ust EXCEPT ![Min(InState(ust, "Pending"))] = "Queued"]
    /\ UNCHANGED <<cacheVars, mainVars, ucalls, printed, urls, uret, albumVars>>

\* first poll of a buffered future: the body of upload_file starts
UploadIssue ==
    /\ mpc = "upload_stream"
    /\ ~CanPull(ust, UploadLimit)
    /\ InState(ust, "Queued") # {}
    /\ LET i == Min(InState(ust, "Queued")) IN
        /\ ust' = [ust EXCEPT ![i] = "InFlight"]
        /\ ucalls' = ucalls \cup
              {[task |-> i, path |-> cmd.paths[i], n |-> CallsFor(ucalls, i) + 1]}
    /\ UNCHANGED <<cacheVars, mainVars, printed, urls, uret, albumVars>>

\* mutant: the URL is collected at the front of the Vec
UploadDone_Prepend(i) ==
    /\ ust' = [ust EXCEPT ![i] = "Done"]
    /\ printed' = Append(printed, Line(cmd.paths[i], RemoteUrl(i)))
    /\ urls' = <<RemoteUrl(i)>> \o urls
    /\ UNCHANGED <<mainVars, uret>>

\* mutant: the URL is collected without its line being printed
UploadDone_NoLine(i) ==
    /\ ust' = [ust EXCEPT ![i] = "Done"]
    /\ urls' = Append(urls, RemoteUrl(i))
    /\ UNCHANGED <<mainVars, uret, printed>>

\* an upload succeeded and its line was written: try_collect pushes the URL
UploadDone(i) ==
    /\ ust' = [ust EXCEPT ![i] = "Done"]
    /\ printed' = Append(printed, Line(cmd.paths[i], RemoteUrl(i)))
    /\ urls' = Append(urls, RemoteUrl(i))
    /\ UNCHANGED <<mainVars, uret>>

\* mutant: the URL is collected before its line is written
UploadPrintFailed_AfterPush(i) ==
    /\ ust' = DropStream([ust EXCEPT ![i] = "Done"])
    /\ urls' = Append(urls, RemoteUrl(i))
    /\ uret' = Err(IoError(i))
    /\ Exit(Err(IoError(i)))
    /\ UNCHANGED <<cmd, printed>>

\* an upload succeeded but println failed: try_collect returns that error
UploadPrintFailed(i) ==
    /\ ust' = DropStream([ust EXCEPT ![i] = "Done"])
    /\ uret' = Err(IoError(i))
    /\ Exit(Err(IoError(i)))
    /\ UNCHANGED <<cmd, printed, urls>>

\* mutant: a failed upload is put back in the buffer to be tried again
UploadFailed_Retry(i) ==
    /\ ust' = [ust EXCEPT ![i] = "Queued"]
    /\ UNCHANGED <<mainVars, uret, printed, urls>>

\* mutant: a failed upload is recorded and the stream goes on
UploadFailed_Continue(i) ==
    /\ ust' = [ust EXCEPT ![i] = "Failed"]
    /\ UNCHANGED <<mainVars, uret, printed, urls>>

\* an upload failed: try_collect returns its error
UploadFailed(i) ==
    /\ ust' = DropStream([ust EXCEPT ![i] = "Failed"])
    /\ uret' = Err(TransportError(i))
    /\ Exit(Err(TransportError(i)))
    /\ UNCHANGED <<cmd, printed, urls>>

\* a polled future returns Ready
UploadComplete ==
    /\ mpc = "upload_stream"
    /\ ~CanPull(ust, UploadLimit)
    /\ \E i \in InState(ust, "InFlight") :
        \/ UploadDone(i)
        \/ UploadPrintFailed(i)
        \/ UploadFailed(i)
    /\ UNCHANGED <<cacheVars, ucalls, albumVars>>

\* mutant: the stream ends with the iterator, without draining the buffer
UploadFinish_Early ==
    /\ mpc = "upload_stream"
    /\ InState(ust, "Pending") = {}
    /\ uret' = Ok(urls)
    /\ IF cmd.kind = "FileUpload"
          THEN Exit(Ok(<<>>))
          ELSE mpc' = "uploaded" /\ UNCHANGED exitv
    /\ UNCHANGED <<cacheVars, cmd, ust, ucalls, printed, urls, albumVars>>

\* the stream ends: try_collect returns Ok(urls)
UploadFinish ==
    /\ mpc = "upload_stream"
    /\ Buffered(ust) = {}
    /\ InState(ust, "Pending") = {}
    /\ uret' = Ok(urls)
    /\ IF cmd.kind = "FileUpload"
          THEN Exit(Ok(<<>>))
          ELSE mpc' = "uploaded" /\ UNCHANGED exitv
    /\ UNCHANGED <<cacheVars, cmd, ust, ucalls, printed, urls, albumVars>>

(***************************************************************************)
(* add_to_album                                                            *)
(***************************************************************************)
\* mutant: the album-upload command goes on to add_to_album with the URLs
\* collected so far when upload_files returned an error
CallAddToAlbum_AfterFailure ==
    /\ \/ mpc = "main" /\ cmd.kind = "AlbumAdd" /\ afiles' = cmd.files
       \/ mpc = "uploaded" /\ cmd.kind = "AlbumUpload" /\ afiles' = urls
       \/ /\ mpc = "exit" /\ cmd.kind = "AlbumUpload"
          /\ uret[1] = "Err" /\ aret = None /\ afiles' = urls
    /\ GetOrTryInitEnter(Main)
    /\ ast' = [i \in 1..Len(afiles') |-> "Pending"]
    /\ spin' = [i \in 1..Len(afiles') |-> "none"]
    /\ mpc' = "album_get"
    /\ UNCHANGED <<calls, cmd, exitv, uploadVars, aalbum, acalls, aret>>

\* main calls add_to_album(album, files): USER_INSTANCE.get() is awaited first
CallAddToAlbum ==
    /\ \/ mpc = "main" /\ cmd.kind = "AlbumAdd" /\ afiles' = cmd.files
       \/ mpc = "uploaded" /\ cmd.kind = "AlbumUpload" /\ afiles' = urls
    /\ GetOrTryInitEnter(Main)
    /\ ast' = [i \in 1..Len(afiles') |-> "Pending"]
    /\ spin' = [i \in 1..Len(afiles') |-> "none"]
    /\ mpc' = "album_get"
    /\ UNCHANGED <<calls, cmd, exitv, uploadVars, aalbum, acalls, aret>>

\* `let user = USER_INSTANCE.get().await?;` and then the album block
AlbumAfterGet ==
    /\ mpc = "album_get"
    /\ \/ /\ cpc[Main] = "err"
          /\ aret' = ret[Main]
          /\ Exit(ret[Main])
          /\ UNCHANGED aalbum
       \/ /\ cpc[Main] = "ok"
          /\ NormalizeAlbum(cmd.album) = <<>>
          /\ aret' = Err(UrlError)
          /\ Exit(Err(UrlError))
          /\ UNCHANGED aalbum
       \/ /\ cpc[Main] = "ok"
          /\ NormalizeAlbum(cmd.album) # <<>>
          /\ aalbum' = NormalizeAlbum(cmd.album)[1]
          /\ mpc' = "album_stream"
          /\ UNCHANGED <<aret, exitv>>
    /\ UNCHANGED <<cacheVars, cmd, uploadVars, afiles, ast, spin, acalls>>

\* the pending references that filter_map lets through
Kept == { i \in InState(ast, "Pending") : NormalizeFile(afiles[i]) # <<>> }

\* mutant: the spinners of all remaining references are registered at the pull
AlbumPull_EagerSpinners ==
    /\ mpc = "album_stream"
    /\ CanPull(ast, AlbumLimit)
    /\ LET nxt == IF Kept = {} THEN Len(afiles) + 1 ELSE Min(Kept) IN
        /\ ast' = [i \in DOMAIN ast |->
                      IF ast[i] = "Pending" /\ i < nxt THEN "Skipped"
                      ELSE IF i = nxt THEN "Queued" ELSE ast[i]]
        /\ spin' = [i \in DOMAIN spin |-> IF i \in Kept THEN "active" ELSE spin[i]]
    /\ UNCHANGED <<cacheVars, mainVars, uploadVars, afiles, aalbum, acalls, aret>>

\* the driver pulls the next item: filter_map drops references until one
\* normalizes, and the map closure registers its spinner and makes its future
AlbumPull ==
    /\ mpc = "album_stream"
    /\ CanPull(ast, AlbumLimit)
    /\ LET nxt == IF Kept = {} THEN Len(afiles) + 1 ELSE Min(Kept) IN
        /\ ast' = [i \in DOMAIN ast |->
                      IF ast[i] = "Pending" /\ i < nxt THEN "Skipped"
                      ELSE IF i = nxt THEN "Queued" ELSE ast[i]]
        /\ spin' = [i \in DOMAIN spin |-> IF i = nxt THEN "active" ELSE spin[i]]
    /\ UNCHANGED <<cacheVars, mainVars, uploadVars, afiles, aalbum, acalls, aret>>

\* first poll of a buffered future: the body of upload_to_album starts
AlbumIssue ==
    /\ mpc = "album_stream"
    /\ ~CanPull(ast, AlbumLimit)
    /\ InState(ast, "Queued") # {}
    /\ LET i == Min(InState(ast, "Queued")) IN
        /\ ast' = [ast EXCEPT ![i] = "InFlight"]
        /\ acalls' = acalls \cup
              {[task |-> i, album |-> aalbum, file |-> NormalizeFile(afiles[i])[1],
                n |-> CallsFor(acalls, i) + 1]}
    /\ UNCHANGED <<cacheVars, mainVars, uploadVars, afiles, aalbum, spin, aret>>

\* upload_to_album returned Ok: the task clears its spinner
AlbumDone(i) ==
    /\ ast' = [ast EXCEPT ![i] = "Done"]
    /\ spin' = [spin EXCEPT ![i] = "cleared"]
    /\ UNCHANGED <<mainVars, aret>>

\* upload_to_album returned Err: the task clears its spinner and try_collect
\* returns the error; the spinners of the dropped futures are dropped with them
AlbumFailed(i) ==
    /\ ast' = DropStream([ast EXCEPT ![i] = "Failed"])
    /\ spin' = [j \in DOMAIN spin |->
                   IF j = i THEN "cleared"
                   ELSE IF spin[j] = "active" THEN "dropped" ELSE spin[j]]
    /\ aret' = Err(TransportError(i))
    /\ Exit(Err(TransportError(i)))
    /\ UNCHANGED cmd

\* a polled future returns Ready
AlbumComplete ==
    /\ mpc = "album_stream"
    /\ ~CanPull(ast, AlbumLimit)
    /\ \E i \in InState(ast, "InFlight") :
        \/ AlbumDone(i)
        \/ AlbumFailed(i)
    /\ UNCHANGED <<cacheVars, uploadVars, afiles, aalbum, acalls>>

\* mutant: add_to_album returns only when every reference was added
AlbumFinish_NoSkip ==
    /\ mpc = "album_stream"
    /\ InState(ast, "Done") = DOMAIN ast
    /\ aret' = Ok(<<>>)
    /\ Exit(Ok(<<>>))
    /\ UNCHANGED <<cacheVars, cmd, uploadVars, afiles, aalbum, ast, spin, acalls>>

\* the stream ends: try_collect returns Ok and add_to_album returns Ok(())
AlbumFinish ==
    /\ mpc = "album_stream"
    /\ Buffered(ast) = {}
    /\ InState(ast, "Pending") = {}
    /\ aret' = Ok(<<>>)
    /\ Exit(Ok(<<>>))
    /\ UNCHANGED <<cacheVars, cmd, uploadVars, afiles, aalbum, ast, spin, acalls>>

Next ==
    \/ CallUploadFiles
    \/ CallAddToAlbum
    \/ MainAcquire
    \/ MainInitOk
    \/ MainInitErr
    \/ UploadAfterGet
    \/ UploadPull
    \/ UploadIssue
    \/ UploadComplete
    \/ UploadFinish
    \/ AlbumAfterGet
    \/ AlbumPull
    \/ AlbumIssue
    \/ AlbumComplete
    \/ AlbumFinish

Spec == Init /\ [][Next]_vars

(***************************************************************************)
(* Properties.                                                             *)
(***************************************************************************)
AttemptRunning(k) == \E c \in Callers : cpc[c] = "init" /\ own[c] = k
AttemptFailed(k) == k \in 1..authCalls /\ cache # k /\ ~AttemptRunning(k)
FailedAttempts == { k \in 1..authCalls : AttemptFailed(k) }
IsErr(r, kind) == r[1] = "Err" /\ r[2][1] = kind
Issued(callset) == { r.task : r \in callset }

\* C1: during upload_files at most 5 upload_file calls are started and not
\* completed, and at most 5 upload futures are held by the driver.
C1_UploadCeiling ==
    /\ Cardinality(InState(ust, "InFlight")) <= 5
    /\ Cardinality(Buffered(ust)) <= 5

C1_Witness ==
    /\ Cardinality(InState(ust, "InFlight")) = 5
    /\ InState(ust, "Pending") # {}

\* C2: during add_to_album at most 5 tasks are dispatched and unfinished: at
\* most 5 upload_to_album calls in flight, at most 5 spinners registered and
\* not cleared, and a spinner is registered only for a task pulled into a slot.
C2_AlbumCeiling ==
    /\ Cardinality(InState(ast, "InFlight")) <= 5
    /\ Cardinality(Buffered(ast)) <= 5
    /\ Cardinality({ i \in DOMAIN spin : spin[i] \in {"active", "dropped"} }) <= 5
    /\ \A i \in DOMAIN spin :
        /\ spin[i] # "none" => ast[i] \notin {"Pending", "Skipped"}
        /\ spin[i] = "active" <=> i \in Buffered(ast)

C2_Witness ==
    /\ Cardinality(InState(ast, "InFlight")) = 5
    /\ Cardinality(InState(spin, "active")) = 5
    /\ InState(ast, "Pending") # {}

\* C3: when no authentication attempt fails, User::new is invoked exactly once
\* however many callers call get before, during or after the initialization;
\* no attempt runs once the cache is set, and every caller that gets Ok gets
\* the one Session of the cache.
C3_AuthenticatesOnce ==
    /\ FailedAttempts = {} => authCalls <= 1
    /\ cache # 0 /\ FailedAttempts = {} => authCalls = 1
    /\ cache # 0 => \A c \in Callers : cpc[c] # "init"
    /\ \A c \in Callers : cpc[c] = "ok" => cache # 0 /\ ret[c] = Ok(cache)

C3_Witness ==
    /\ authCalls = 1
    /\ \A c \in Callers : cpc[c] = "ok" /\ ret[c] = Ok(1)
    /\ \E a, b, c \in Callers :
        /\ own[a] = 1
        /\ joined[b] = 1
        /\ c \notin {a, b} /\ joined[c] = 0

\* C4 as claimed: a caller that waited on an in-flight initialization runs no
\* attempt of its own and gets the outcome of the attempt it waited on.
C4_WaitersShareFailure ==
    \A c \in Callers : joined[c] # 0 =>
        /\ own[c] = 0
        /\ cpc[c] = "ok" => ret[c] = Ok(joined[c])
        /\ cpc[c] = "err" => ret[c] = Err(AuthError(joined[c]))

\* C4 as the code has it: callers that wait on an in-flight initialization get
\* its Session when it succeeds; when it fails the error goes only to the caller
\* that ran it, and a waiter then runs an attempt of its own. A waiter runs its
\* own attempt only after the one it waited on has failed, and an error it
\* returns is that of its own attempt.
C4_WaitersRetryAfterFailure ==
    \A c \in Callers : joined[c] # 0 =>
        /\ own[c] # 0 => AttemptFailed(joined[c])
        /\ cache = joined[c] /\ cpc[c] = "ok" => ret[c] = Ok(joined[c]) /\ own[c] = 0
        /\ cpc[c] = "err" => own[c] # 0 /\ ret[c] = Err(AuthError(own[c]))
        /\ cpc[c] = "acquire" /\ AttemptFailed(joined[c]) => ret[c] = None

C4_Witness ==
    \E a, b, c \in Callers :
        /\ ret[a] = Err(AuthError(1))
        /\ joined[b] = 1 /\ own[b] = 2 /\ ret[b] = Err(AuthError(2))
        /\ joined[c] = 1 /\ own[c] = 3 /\ cpc[c] = "init"

\* C5: at every instant at most one execution of User::new started by get is
\* running.
C5_OneAttemptAtATime ==
    /\ Cardinality({ c \in Callers : cpc[c] = "init" }) <= 1
    /\ (\E c \in Callers : cpc[c] = "init") => permits = 0

C5_Witness ==
    /\ Cardinality({ c \in Callers : cpc[c] = "init" }) = 1
    /\ Cardinality({ c \in Callers : cpc[c] = "acquire" }) = NCallers - 1

\* C6: a failed initialization is not cached: the step in which get returns an
\* authentication error leaves the cache empty and the semaphore open with its
\* permit back, so that a later call can run a fresh attempt; and once the
\* cache holds a Session it never changes.
C6_FailureNotCached ==
    [][ /\ cache # 0 => cache' = cache
        /\ \A c \in Callers : cpc[c] = "init" /\ cpc'[c] = "err" =>
              /\ cache' = 0
              /\ ~closed'
              /\ permits' = 1
              /\ authCalls' = authCalls
        /\ cache' # 0 /\ cache = 0 =>
              \E c \in Callers : cpc[c] = "init" /\ cache' = own[c]
      ]_vars

C6_Witness ==
    /\ calls = 2
    /\ authCalls = 2
    /\ cache = 2
    /\ \E a \in Callers :
        /\ ret[a] = Ok(2)
        /\ \A c \in Callers \ {a} : cpc[c] = "idle"

\* C7: if acquiring the session fails, upload_files returns that error with no
\* upload_file call issued, no future made and no line printed, whatever the
\* paths are.
C7_AuthFailureBeforeUploads ==
    cmd.kind \in {"FileUpload", "AlbumUpload"} /\ cpc[Main] = "err" =>
        /\ ucalls = {}
        /\ printed = <<>>
        /\ InState(ust, "Pending") = DOMAIN ust
        /\ mpc \in {"upload_get", "exit"}
        /\ mpc = "exit" => uret = ret[Main] /\ exitv = ret[Main] /\ IsErr(uret, "Auth")

C7_Witness ==
    /\ mpc = "exit"
    /\ IsErr(uret, "Auth")
    /\ Len(cmd.paths) > 5

\* C8: if every upload succeeds and every line is written, upload_files
\* returns Ok with a permutation of the URLs of the paths (one per path), and
\* exactly one line per path has been printed.
C8_AllSucceed ==
    /\ uret[1] = "Ok" =>
        /\ Len(uret[2]) = Len(cmd.paths)
        /\ Len(printed) = Len(cmd.paths)
        /\ \A i \in DOMAIN cmd.paths :
            /\ Cardinality({ k \in DOMAIN uret[2] : uret[2][k] = RemoteUrl(i) }) = 1
            /\ Cardinality({ k \in DOMAIN printed :
                   printed[k] = Line(cmd.paths[i], RemoteUrl(i)) }) = 1
    /\ ( /\ uret # None
         /\ \A i \in DOMAIN ust : ust[i] = "Done"
         /\ ~IsErr(uret, "Io")
         /\ ~IsErr(uret, "Auth") ) => uret[1] = "Ok"

C8_Witness ==
    /\ uret[1] = "Ok"
    /\ Len(uret[2]) = MaxPaths
    /\ uret[2][1] = RemoteUrl(5)
    /\ uret[2][MaxPaths] = RemoteUrl(1)

\* C9: when a task of upload_files or add_to_album fails, the batch returns
\* the error of that task, the first failure the driver observes, and from
\* then on no task is started: no future made, no call issued, no spinner.
C9_FirstFailureEndsBatch ==
    /\ [](\A i \in DOMAIN ust : ust[i] = "Failed" =>
            uret = Err(TransportError(i)) /\ exitv = uret)
    /\ [](\A i \in DOMAIN ast : ast[i] = "Failed" =>
            aret = Err(TransportError(i)) /\ exitv = aret)
    /\ [][ /\ InState(ust, "Failed") # {} =>
                /\ ucalls' = ucalls
                /\ InState(ust', "Pending") = InState(ust, "Pending")
                /\ Buffered(ust') \subseteq Buffered(ust)
           /\ InState(ast, "Failed") # {} =>
                /\ acalls' = acalls
                /\ spin' = spin
                /\ InState(ast', "Pending") = InState(ast, "Pending")
                /\ Buffered(ast') \subseteq Buffered(ast)
         ]_vars

C9_Witness ==
    \E i \in DOMAIN ust :
        /\ ust[i] = "Failed"
        /\ uret = Err(TransportError(i))
        /\ InState(ust, "Pending") # {}
        /\ InState(ust, "Cancelled") # {}
        /\ mpc = "exit"

\* C10 as claimed: the siblings in flight when a task fails are not cancelled
\* and run to completion, so that when main is over every call issued has
\* reached Done or Failed.
C10_SiblingsRunToCompletion ==
    mpc = "exit" /\ (InState(ust, "Failed") # {} \/ InState(ast, "Failed") # {}) =>
        /\ \A i \in Issued(ucalls) : ust[i] \in {"Done", "Failed"}
        /\ \A i \in Issued(acalls) : ast[i] \in {"Done", "Failed"}

\* C10 as the code has it: when a task fails the batch returns at once and the
\* futures of the siblings still in the buffer are dropped with the stream:
\* they are cancelled, never reach Done or Failed, and only the tasks that
\* completed before the failure are Done.
C10_SiblingsDropped ==
    /\ [](\A i \in DOMAIN ust : ust[i] = "Failed" =>
            /\ mpc = "exit"
            /\ Buffered(ust) = {}
            /\ \A j \in Issued(ucalls) \ {i} : ust[j] \in {"Done", "Cancelled"})
    /\ [](\A i \in DOMAIN ast : ast[i] = "Failed" =>
            /\ mpc = "exit"
            /\ Buffered(ast) = {}
            /\ \A j \in Issued(acalls) \ {i} : ast[j] \in {"Done", "Cancelled"})
    /\ [][ /\ \A i \in DOMAIN ust : ust[i] = "Cancelled" => ust'[i] = "Cancelled"
           /\ \A i \in DOMAIN ast : ast[i] = "Cancelled" => ast'[i] = "Cancelled"
         ]_vars

C10_Witness ==
    \E i, j \in DOMAIN ust :
        /\ ust[i] = "Failed"
        /\ ust[j] = "Cancelled"
        /\ j \in Issued(ucalls)
        /\ InState(ust, "Done") # {}

\* C11: every spinner registered by an add_to_album task has finish_and_clear
\* called on it when its task ends, so that no spinner is left uncleared when
\* add_to_album has returned, with Ok or with an error.
C11_SpinnersCleared ==
    /\ \A i \in DOMAIN spin : ast[i] \in {"Done", "Failed"} => spin[i] = "cleared"
    /\ aret # None => \A i \in DOMAIN spin : spin[i] \in {"none", "cleared"}

AlbumPrefix == <<"https://", "catbox.moe", "/", "c", "/">>
FilePrefix == <<"https://", "files.", "catbox.moe", "/">>
ScenarioB ==
    /\ cmd.kind = "AlbumAdd"
    /\ cmd.album = <<"myalbum">>
    /\ cmd.files = << FilePrefix \o <<"xyz123", ".png">>, <<"abc456">> >>
    /\ aret = Ok(<<>>)
AddCalls == { <<r.album, r.file>> : r \in acalls }

\* C12 as claimed: a full files.catbox.moe URL is normalized to the code without
\* its extension, so that for album "myalbum" and files
\* ["https://files.catbox.moe/xyz123.png", "abc456"] the add calls are
\* (https://catbox.moe/c/myalbum, xyz123) and (https://catbox.moe/c/myalbum, abc456).
C12_ExtensionlessCodes ==
    ScenarioB =>
        AddCalls = { <<AlbumPrefix \o <<"myalbum">>, <<"xyz123">> >>,
                     <<AlbumPrefix \o <<"myalbum">>, <<"abc456">> >> }

\* C12 as the code has it: a bare album code c becomes https://catbox.moe/c/<c>,
\* a full files.catbox.moe URL becomes its first path segment, the file name
\* with its extension (xyz123.png), a bare code is passed unchanged, and one add
\* call is issued per file reference against that album URL.
C12_NormalizedCalls ==
    /\ \A r \in acalls :
        LET x == afiles[r.task] IN
        /\ ~Contains(cmd.album, <<"catbox.moe">>) => r.album = AlbumPrefix \o cmd.album
        /\ ~Contains(x, <<"files.", "catbox.moe">>) => r.file = x
        /\ Len(x) > 4 /\ SubSeq(x, 1, 4) = FilePrefix /\ FirstSlash(x, 5) = 0 =>
              FilePrefix \o r.file = x
    /\ aret = Ok(<<>>) => \A i \in InState(ast, "Done") : CallsFor(acalls, i) = 1
    /\ ScenarioB =>
        /\ AddCalls = { <<AlbumPrefix \o <<"myalbum">>, <<"xyz123", ".png">> >>,
                        <<AlbumPrefix \o <<"myalbum">>, <<"abc456">> >> }
        /\ Cardinality(acalls) = 2

C12_Witness ==
    /\ ScenarioB
    /\ Cardinality(acalls) = 2
    /\ InState(ast, "Done") = {1, 2}

\* a reference naming the file-content subdomain that fails URL parsing or
\* first-path-segment extraction
Droppable(x) ==
    /\ Contains(x, <<"files.", "catbox.moe">>)
    /\ ~UrlParse(x).ok \/ FirstPathSegment(UrlParse(x)) = <<>>

\* C13: a file reference that names the file-content subdomain but fails URL
\* parsing or segment extraction is dropped without failing the batch: it gets
\* no add call, no spinner and no slot; every other reference is dispatched at
\* most once, and exactly once when the batch returns Ok; and an error of the
\* batch never comes from a dropped reference.
C13_DroppedWithoutFailing ==
    /\ \A i \in DOMAIN afiles :
        IF Droppable(afiles[i])
            THEN /\ spin[i] = "none"
                 /\ CallsFor(acalls, i) = 0
                 /\ ast[i] \in {"Pending", "Skipped"}
            ELSE /\ CallsFor(acalls, i) <= 1
                 /\ ast[i] # "Skipped"
    /\ aret = Ok(<<>>) =>
        \A i \in DOMAIN afiles :
            IF Droppable(afiles[i])
                THEN ast[i] = "Skipped"
                ELSE ast[i] = "Done" /\ CallsFor(acalls, i) = 1
    /\ aret[1] = "Err" =>
        /\ aret[2][1] \in {"Auth", "Url", "Transport"}
        /\ aret[2][1] = "Transport" => ~Droppable(afiles[aret[2][2]])

C13_Witness ==
    /\ aret = Ok(<<>>)
    /\ \E i, j \in DOMAIN afiles :
        /\ ~UrlParse(afiles[i]).ok /\ Droppable(afiles[i])
        /\ UrlParse(afiles[j]).ok /\ Droppable(afiles[j])
    /\ Cardinality(InState(ast, "Done")) >= 2

\* an album reference that claims to be a full URL and does not parse
MalformedAlbum == Contains(cmd.album, <<"catbox.moe">>) /\ ~UrlParse(cmd.album).ok

\* C14: if the album reference fails normalization, add_to_album returns that
\* error (once the session is acquired, which comes first), and no
\* upload_to_album call is issued and no spinner registered, whatever the file
\* references are.
C14_MalformedAlbumFatal ==
    MalformedAlbum =>
        /\ acalls = {}
        /\ \A i \in DOMAIN afiles : spin[i] = "none" /\ ast[i] = "Pending"
        /\ mpc # "album_stream"
        /\ aret # None =>
            /\ aret[1] = "Err"
            /\ exitv = aret
            /\ cpc[Main] = "ok" => aret = Err(UrlError)

C14_Witness ==
    /\ MalformedAlbum
    /\ aret = Err(UrlError)
    /\ Len(afiles) > 5
    /\ \E i \in DOMAIN afiles : ~Droppable(afiles[i])

\* the lines that name the path of task i
LinesOf(i) ==
    { k \in DOMAIN printed :
        SubSeq(printed[k], 1, Len(cmd.paths[i])) = cmd.paths[i] }
TaskMoves ==
    { <<"Pending", "Queued">>, <<"Queued", "InFlight">>,
      <<"InFlight", "Done">>, <<"InFlight", "Failed">>,
      <<"Pending", "Skipped">>,
      <<"Queued", "Cancelled">>, <<"InFlight", "Cancelled">> }
MovesAlong(st, stn) ==
    \A i \in DOMAIN st \cap DOMAIN stn : st[i] = stn[i] \/ <<st[i], stn[i]>> \in TaskMoves

\* C15 as claimed: a task that has reached Done or Failed has reported to the
\* Progress Reporter: a printed line for an upload (unless writing that line is
\* what failed), a cleared spinner for an add-to-album.
C15_TerminalStatesReport ==
    /\ \A i \in DOMAIN ust :
        ust[i] \in {"Done", "Failed"} /\ uret # Err(IoError(i)) => LinesOf(i) # {}
    /\ \A i \in DOMAIN ast :
        ast[i] \in {"Done", "Failed"} => spin[i] = "cleared"

\* C15 as the code has it: a task moves Pending -> InFlight (queued, then
\* polled) -> Done or Failed; an upload that is Done has had its line printed
\* and an add-to-album that is Done or Failed has had its spinner cleared in
\* the step that ends it, before any task takes its slot; an upload that is
\* Failed has printed nothing.
C15_TaskLifecycle ==
    /\ [](\A i \in DOMAIN ust :
            /\ ust[i] = "Done" /\ uret # Err(IoError(i)) =>
                 /\ Cardinality(LinesOf(i)) = 1
                 /\ \E k \in LinesOf(i) : printed[k] = Line(cmd.paths[i], RemoteUrl(i))
            /\ ust[i] # "Done" => LinesOf(i) = {})
    /\ [](\A i \in DOMAIN ast : ast[i] \in {"Done", "Failed"} <=> spin[i] = "cleared")
    /\ [][ /\ MovesAlong(ust, ust')
           /\ MovesAlong(ast, ast')
           /\ Len(printed') > Len(printed) =>
                 InState(ust', "Queued") = InState(ust, "Queued")
         ]_vars

C15_Witness ==
    /\ Len(ust) = 6
    /\ ust[6] = "InFlight"
    /\ Cardinality(InState(ust, "Done")) = 1
    /\ Len(printed) = 1

Collected == { urls[k] : k \in DOMAIN urls }

\* C16: if writing the line of a successfully completed upload fails,
\* upload_files returns that I/O error and main ends with it: the URL of that
\* upload is neither collected nor returned nor passed on to add_to_album, no
\* line is printed for it or after it, and no upload is started afterwards.
C16_PrintFailureEndsBatch ==
    /\ [](\A i \in DOMAIN ust : uret = Err(IoError(i)) =>
            /\ ust[i] = "Done"
            /\ LinesOf(i) = {}
            /\ RemoteUrl(i) \notin Collected
            /\ exitv = uret
            /\ mpc = "exit"
            /\ Buffered(ust) = {}
            /\ afiles = <<>> /\ acalls = {})
    /\ [][ IsErr(uret, "Io") =>
              /\ printed' = printed
              /\ urls' = urls
              /\ ucalls' = ucalls
              /\ ust' = ust
         ]_vars

C16_Witness ==
    \E i \in DOMAIN ust :
        /\ uret = Err(IoError(i))
        /\ Len(ust) = 6
        /\ Len(printed) >= 1
        /\ InState(ust, "Cancelled") # {}

\* calls of USER_INSTANCE.get() made by main so far: one by upload_files, one
\* by add_to_album
GetsOfMain ==
    (IF cmd.kind \in {"FileUpload", "AlbumUpload"} /\ mpc # "main" THEN 1 ELSE 0)
    + (IF mpc \in {"album_get", "album_stream"} \/ aret # None THEN 1 ELSE 0)

\* C17: nothing is retried: at most one upload_file call per input path, at
\* most one upload_to_album call per file reference, and at most one
\* authentication attempt per call of get, whatever the outcomes.
C17_NoRetries ==
    /\ \A i \in DOMAIN ust : CallsFor(ucalls, i) <= 1
    /\ \A i \in DOMAIN ast : CallsFor(acalls, i) <= 1
    /\ \A r \in ucalls \cup acalls : r.n = 1
    /\ authCalls <= GetsOfMain
    /\ \A i \in InState(ust, "Failed") \cup InState(ust, "Done") : CallsFor(ucalls, i) = 1
    /\ \A i \in InState(ast, "Failed") \cup InState(ast, "Done") : CallsFor(acalls, i) = 1

C17_Witness ==
    /\ authCalls = 1
    /\ Cardinality(ucalls) = 5
    /\ \E i \in DOMAIN ust : ust[i] = "Failed" /\ CallsFor(ucalls, i) = 1
    /\ InState(ust, "Pending") # {}

\* C18: in every state of upload_files the printed lines and the collected
\* URLs correspond one to one in the same order: the k-th line names a path
\* whose upload is Done together with that upload's URL, which is the k-th
\* collected URL; no path is printed twice; and the order is the completion
\* order, which need not be the input order.
C18_LinesMatchUrls ==
    /\ Len(printed) = Len(urls)
    /\ \A k \in DOMAIN printed :
        \E i \in InState(ust, "Done") :
            /\ urls[k] = RemoteUrl(i)
            /\ printed[k] = Line(cmd.paths[i], urls[k])
            /\ LinesOf(i) = {k}
    /\ \A k1, k2 \in DOMAIN urls : k1 # k2 => urls[k1] # urls[k2]
    /\ Len(urls) = Cardinality({ i \in InState(ust, "Done") : uret # Err(IoError(i)) })
    /\ uret[1] = "Ok" => uret[2] = urls

C18_Witness ==
    /\ mpc = "upload_stream"
    /\ Len(urls) = 3
    /\ urls[1] = RemoteUrl(4)
    /\ urls[2] = RemoteUrl(1)
    /\ urls[3] = RemoteUrl(6)

\* the album phase of a command has begun: add_to_album was called
AlbumPhase == mpc \in {"album_get", "album_stream"} \/ aret # None \/ ast # <<>>
Segment(i) == <<Tok("u", i), ".png">>

\* C19: in the album-upload command nothing of add_to_album happens before
\* upload_files returned Ok with every upload of the batch Done; when an upload
\* (or its authentication or its line) failed, no add-to-album call is ever
\* issued and main has ended with that error; every add-to-album call names
\* the first path segment of the upload URL at its position, and after
\* add_to_album returned Ok the references added are exactly the first path
\* segments of the returned URLs; User::new ran at most once over both phases.
C19_AlbumUploadSequenced ==
    cmd.kind = "AlbumUpload" =>
        /\ (AlbumPhase \/ acalls # {} \/ afiles # <<>>) =>
              /\ uret = Ok(urls)
              /\ afiles = urls
              /\ Len(urls) = Len(cmd.paths)
              /\ InState(ust, "Done") = DOMAIN cmd.paths
        /\ uret[1] = "Err" =>
              /\ acalls = {}
              /\ ~AlbumPhase
              /\ mpc = "exit"
              /\ exitv = uret
        /\ \A r \in acalls :
              \E i \in DOMAIN cmd.paths :
                  /\ uret[2][r.task] = RemoteUrl(i)
                  /\ r.file = Segment(i)
        /\ aret = Ok(<<>>) =>
              { r.file : r \in acalls } = { Segment(i) : i \in DOMAIN cmd.paths }
        /\ authCalls <= 1

C19_Witness ==
    /\ cmd.kind = "AlbumUpload"
    /\ Len(cmd.paths) = 2
    /\ uret = Ok(<<RemoteUrl(2), RemoteUrl(1)>>)
    /\ aret = Ok(<<>>)
    /\ Cardinality(acalls) = 2
    /\ authCalls = 1

(***************************************************************************)
(* Progress.  The runtime keeps polling main's future, so a step of the    *)
(* driver that is possible is taken; User::new and every issued remote     *)
(* call are assumed to return.                                             *)
(***************************************************************************)
Driver ==
    \/ CallUploadFiles
    \/ CallAddToAlbum
    \/ MainAcquire
    \/ UploadAfterGet
    \/ UploadPull
    \/ UploadIssue
    \/ UploadFinish
    \/ AlbumAfterGet
    \/ AlbumPull
    \/ AlbumIssue
    \/ AlbumFinish

Fairness ==
    /\ WF_vars(Driver)
    /\ WF_vars(MainInitOk \/ MainInitErr)
    /\ WF_vars(UploadComplete)
    /\ WF_vars(AlbumComplete)

FairSpec == Spec /\ Fairness

\* C20: when User::new and every issued remote call return, every call of
\* upload_files and of add_to_album returns; when upload_files has returned Ok
\* every input path has one remote call issued and is Done, and when
\* add_to_album has returned Ok every reference that normalized has one remote
\* call issued and is Done and every other reference was dropped: nothing is
\* left Pending, Queued or InFlight.
C20_BatchesReturn ==
    /\ (mpc = "upload_get") ~> (uret # None)
    /\ (mpc = "album_get") ~> (aret # None)
    /\ [](uret[1] = "Ok" =>
            /\ InState(ust, "Done") = DOMAIN cmd.paths
            /\ \A i \in DOMAIN cmd.paths : CallsFor(ucalls, i) = 1)
    /\ [](aret[1] = "Ok" =>
            \A i \in DOMAIN afiles :
                IF NormalizeFile(afiles[i]) # <<>>
                   THEN ast[i] = "Done" /\ CallsFor(acalls, i) = 1
                   ELSE ast[i] = "Skipped" /\ CallsFor(acalls, i) = 0)

C20_Witness ==
    /\ cmd.kind = "AlbumAdd"
    /\ mpc = "exit"
    /\ aret = Ok(<<>>)
    /\ Len(afiles) = MaxFiles
    /\ InState(ast, "Skipped") # {}
    /\ Cardinality(InState(ast, "Done")) >= 2

====
